---- MODULE Spec2Model ----
(***************************************************************************)
(* A model of the Projector server (src/mcp_projector/mcp_projector.py):   *)
(* the keyword filter over the project registry, the dated folder          *)
(* provisioner, the README templater, the orchestrator that composes them  *)
(* and the three tools built on top.                                       *)
(*                                                                         *)
(* Text is a sequence of one-character strings, so that lower(), upper(),  *)
(* split() and the substring test are computed and not assumed.  A JSON    *)
(* value is a record tagged with its type in field t.                      *)
(***************************************************************************)
EXTENDS Integers, Sequences, FiniteSets, TLC

VARIABLES
    env_FILTER_STRATEGY,   \* the FILTER_STRATEGY environment variable at startup
    filter_strategy,       \* module global, line 22
    projects_json,         \* what is found at projects_json_file_path
    project_folders_root,  \* module global, line 19: is the root configured
    fs,                    \* the file system under the provisioning root
    today,                 \* index into Dates: the local calendar day
    op,                    \* name of the last operation called ("" before any)
    args,                  \* its arguments
    ret,                   \* what it returned, or that it raised
    calls,                 \* what the last operation invoked, in order
    procs,                 \* calls in progress at the same time: where each one is
    attempts               \* the creations and writes those calls made, in order

vars == << env_FILTER_STRATEGY, filter_strategy, projects_json,
           project_folders_root, fs, today, op, args, ret, calls, procs, attempts >>

-----------------------------------------------------------------------------
(* Bounds of the model *)

\* longest registry (number of project records)
MaxRecords == 2
\* longest filter keyword list
MaxKeywords == 2
\* number of calendar days the clock can advance through
MaxDay == 1

-----------------------------------------------------------------------------
(* Text *)

\* the letters that have an upper case and a lower case form in the model
CasePairs ==
    { <<"a", "A">>, <<"d", "D">>, <<"g", "G">>, <<"l", "L">>, <<"n", "N">>,
      <<"o", "O">>, <<"r", "R">>, <<"y", "Y">> }

\* str.lower() on one character
LowerChar(c) ==
    IF \E p \in CasePairs : p[2] = c
    THEN (CHOOSE p \in CasePairs : p[2] = c)[1]
    ELSE c

\* str.upper() on one character
UpperChar(c) ==
    IF \E p \in CasePairs : p[1] = c
    THEN (CHOOSE p \in CasePairs : p[1] = c)[2]
    ELSE c

\* str.lower()
str_lower(s) == [i \in 1..Len(s) |-> LowerChar(s[i])]

\* str.upper()
str_upper(s) == [i \in 1..Len(s) |-> UpperChar(s[i])]

\* the whitespace characters of the model
Whitespace == {" "}

\* str.split() with no separator: the maximal runs of non-whitespace, in order;
\* word is the run being read, words the runs already closed
RECURSIVE split_from(_, _, _, _)
split_from(s, i, word, words) ==
    IF i > Len(s)
    THEN IF word = <<>> THEN words ELSE Append(words, word)
    ELSE IF s[i] \in Whitespace
         THEN split_from(s, i + 1, <<>>,
                         IF word = <<>> THEN words ELSE Append(words, word))
         ELSE split_from(s, i + 1, Append(word, s[i]), words)

str_split(s) == split_from(s, 1, <<>>, <<>>)

\* a test for the whole term in place of the substring test
str_in_whole_term(sub, s) == sub = s

\* the Python test  sub in s  on two strings
str_in(sub, s) ==
    \E i \in 0..(Len(s) - Len(sub)) : SubSeq(s, i + 1, i + Len(sub)) = sub

-----------------------------------------------------------------------------
(* JSON values, as json.load returns them *)

JNull == [t |-> "null"]
JNumber == [t |-> "number"]
JString(s) == [t |-> "string", s |-> s]
JArray(items) == [t |-> "array", items |-> items]
JObject(fields) == [t |-> "object", fields |-> fields]

\* dict.get(key, default)
dict_get(d, key, default) ==
    IF key \in DOMAIN d.fields THEN d.fields[key] ELSE default

\* os.getenv(name, default) for a variable that is unset or holds val
os_getenv(env, default) == IF env.set THEN env.val ELSE default

\* the literal "AND" of lines 22, 60 and 114
AND == <<"A", "N", "D">>

\* the strategy read without .upper()
read_filter_strategy_as_written(env) == os_getenv(env, AND)

\* line 22: the strategy the process runs with
read_filter_strategy(env) == str_upper(os_getenv(env, AND))

-----------------------------------------------------------------------------
(* Keyword filter, lines 27-85 *)

\* lines 62-66: the loop over the filter keywords, leaving at the first one
\* that no term contains
RECURSIVE matches_all_from(_, _, _)
matches_all_from(filter_keywords_lower, all_searchable_terms, k) ==
    IF k > Len(filter_keywords_lower)
    THEN TRUE
    ELSE IF ~ \E n \in 1..Len(all_searchable_terms) :
                  str_in(filter_keywords_lower[k], all_searchable_terms[n])
         THEN FALSE
         ELSE matches_all_from(filter_keywords_lower, all_searchable_terms, k + 1)

\* lines 71-72: the generator over (filter keyword, term) pairs
matches_any(filter_keywords_lower, all_searchable_terms) ==
    \E k \in 1..Len(filter_keywords_lower) :
        \E n \in 1..Len(all_searchable_terms) :
            str_in(filter_keywords_lower[k], all_searchable_terms[n])

\* lines 54-58 raise unless the record is an object whose keywords can be
\* iterated into strings and whose title is a string
record_raises(project) ==
    \/ project.t # "object"
    \/ LET keywords == dict_get(project, "keywords", JArray(<<>>))
           title == dict_get(project, "title", JString(<<>>))
       IN \/ keywords.t \notin {"array", "string"}
          \/ /\ keywords.t = "array"
             /\ \E n \in 1..Len(keywords.items) : keywords.items[n].t # "string"
          \/ title.t # "string"

\* line 54: the record's keywords, lowercased; a JSON string in place of the
\* list is iterated character by character
project_keywords_of(project) ==
    LET keywords == dict_get(project, "keywords", JArray(<<>>))
    IN IF keywords.t = "string"
       THEN [n \in 1..Len(keywords.s) |-> str_lower(<<keywords.s[n]>>)]
       ELSE [n \in 1..Len(keywords.items) |-> str_lower(keywords.items[n].s)]

\* lines 57-58
all_searchable_terms_of(project) ==
    LET title_words == str_split(str_lower(dict_get(project, "title", JString(<<>>)).s))
    IN project_keywords_of(project) \o title_words

\* lines 60-73: is the record appended to filtered_projects
record_kept(project, strategy, filter_keywords_lower) ==
    IF strategy = AND
    THEN matches_all_from(filter_keywords_lower, all_searchable_terms_of(project), 1)
    ELSE matches_any(filter_keywords_lower, all_searchable_terms_of(project))

\* the loop putting each kept record in front of those kept before
RECURSIVE filter_loop_prepending(_, _, _, _, _)
filter_loop_prepending(projects, i, strategy, filter_keywords_lower, filtered_projects) ==
    IF i > Len(projects)
    THEN [raised |-> FALSE, value |-> filtered_projects]
    ELSE IF record_raises(projects[i])
         THEN [raised |-> TRUE, value |-> <<>>]
         ELSE filter_loop_prepending(projects, i + 1, strategy, filter_keywords_lower,
                          IF record_kept(projects[i], strategy, filter_keywords_lower)
                          THEN <<projects[i]>> \o filtered_projects
                          ELSE filtered_projects)

\* lines 51-75: the loop over the registry; an exception leaves the loop
RECURSIVE filter_loop(_, _, _, _, _)
filter_loop(projects, i, strategy, filter_keywords_lower, filtered_projects) ==
    IF i > Len(projects)
    THEN [raised |-> FALSE, value |-> filtered_projects]
    ELSE IF record_raises(projects[i])
         THEN [raised |-> TRUE, value |-> <<>>]
         ELSE filter_loop(projects, i + 1, strategy, filter_keywords_lower,
                          IF record_kept(projects[i], strategy, filter_keywords_lower)
                          THEN Append(filtered_projects, projects[i])
                          ELSE filtered_projects)

\* lines 39-85.  source is what open() and json.load meet: no file, a file
\* that is not JSON, or a JSON document.  The three except clauses all return [].
load_and_filter_projects(source, strategy, filter_keywords) ==
    IF source.kind = "missing" THEN JArray(<<>>)
    ELSE IF source.kind = "invalid" THEN JArray(<<>>)
    ELSE LET data == source.data IN
         IF data.t # "object" THEN JArray(<<>>)
         ELSE LET projects == dict_get(data, "projects", JArray(<<>>)) IN
              IF filter_keywords = <<>> THEN projects
              ELSE IF projects.t # "array" THEN JArray(<<>>)
              ELSE LET filter_keywords_lower ==
                           [k \in 1..Len(filter_keywords) |-> str_lower(filter_keywords[k])]
                       looped == filter_loop(projects.items, 1, strategy,
                                             filter_keywords_lower, <<>>)
                   IN IF looped.raised THEN JArray(<<>>) ELSE JArray(looped.value)

\* lines 114 and 120
strategy_text_of(strategy) == IF strategy = AND THEN "all" ELSE "any"

\* lines 102-126: [raised |-> TRUE] when an exception leaves the tool
find_projects(source, strategy, keywords) ==
    LET filtered_projects == load_and_filter_projects(source, strategy, keywords) IN
    IF filtered_projects.t # "array"
    THEN [raised |-> TRUE]
    ELSE IF \E i \in 1..Len(filtered_projects.items) :
                filtered_projects.items[i].t # "object"
         THEN [raised |-> TRUE]
         ELSE [raised |-> FALSE,
               strategy_text |-> strategy_text_of(strategy),
               projects |->
                   [i \in 1..Len(filtered_projects.items) |->
                       [id |-> dict_get(filtered_projects.items[i], "id", JNull),
                        title |-> dict_get(filtered_projects.items[i], "title", JNull)]]]

-----------------------------------------------------------------------------
(* Paths, dates and the file system *)

\* Python's None where a text, a path or a file's content is expected: a
\* one-piece sequence that no text, path or content of the model equals
None == <<"None">>

\* the test  x is None  in place of  not x
falsy_none_only(x) == x = None

\* the truth value Python gives a string or None:  not x
falsy(x) == x = None \/ x = <<>>

\* the directory PROJECT_FOLDERS_ROOT names, when it names one
ROOT == <<"root">>

\* os.path.join(directory, name)
path_join(directory, name) == Append(directory, name)

\* the document's file name, lines 224 and 427
README == <<"R", "E", "A", "D", "M", "E", ".", "m", "d">>

\* datetime.now() on the day with index n: the clock starts on 2025-06-30 and
\* a day later the month has changed
date_of(n) ==
    IF n = 0
    THEN [year |-> 2025, month |-> 6, day |-> 30]
    ELSE [year |-> 2025, month |-> 7, day |-> n]

\* one decimal digit as a character
DigitChar(d) ==
    CASE d = 0 -> "0" [] d = 1 -> "1" [] d = 2 -> "2" [] d = 3 -> "3" [] d = 4 -> "4"
      [] d = 5 -> "5" [] d = 6 -> "6" [] d = 7 -> "7" [] d = 8 -> "8" [] d = 9 -> "9"

\* a number zero-padded to width digits
RECURSIVE zero_padded(_, _)
zero_padded(n, width) ==
    IF width = 0
    THEN <<>>
    ELSE Append(zero_padded(n \div 10, width - 1), DigitChar(n % 10))

\* strftime('%Y%m%d'), line 165
strftime_Ymd(date) ==
    zero_padded(date.year, 4) \o zero_padded(date.month, 2) \o zero_padded(date.day, 2)

\* line 165: p<YYYYMMDD>a
folder_name_of(date) == <<"p">> \o strftime_Ymd(date) \o <<"a">>

\* the names the provisioner can give a folder within the days of the model
FolderNames == { folder_name_of(date_of(n)) : n \in 0..MaxDay }

\* what can be at root/<name>: nothing, a regular file, or a directory whose
\* README.md is None (no such file) or the file's content
AbsentNode == [kind |-> "absent", readme |-> None]
FileNode == [kind |-> "file", readme |-> None]
DirNode(readme) == [kind |-> "dir", readme |-> readme]

node_of(fsys, name) ==
    IF fsys.root_exists /\ name \in DOMAIN fsys.nodes
    THEN fsys.nodes[name]
    ELSE AbsentNode

\* os.path.exists for the root, an entry of the root, or an entry's README.md
path_exists(fsys, path) ==
    CASE Len(path) = 1 -> path = ROOT /\ fsys.root_exists
      [] Len(path) = 2 -> path[1] = ROOT[1] /\ node_of(fsys, path[2]).kind # "absent"
      [] Len(path) = 3 -> /\ path[1] = ROOT[1]
                          /\ path[3] = README
                          /\ node_of(fsys, path[2]).kind = "dir"
                          /\ node_of(fsys, path[2]).readme # None
      [] OTHER -> FALSE

\* os.path.isdir
path_isdir(fsys, path) ==
    CASE Len(path) = 1 -> path = ROOT /\ fsys.root_exists
      [] Len(path) = 2 -> path[1] = ROOT[1] /\ node_of(fsys, path[2]).kind = "dir"
      [] OTHER -> FALSE

\* the file system after os.makedirs(root/<name>) succeeded
fs_makedirs(fsys, name) ==
    [fsys EXCEPT !.nodes = [n \in DOMAIN fsys.nodes |->
                               IF n = name THEN DirNode(None) ELSE fsys.nodes[n]]]

\* the file system after README.md in root/<name> was opened for writing and
\* content reached it
fs_write_readme(fsys, name, content) ==
    [fsys EXCEPT !.nodes = [n \in DOMAIN fsys.nodes |->
                               IF n = name THEN DirNode(content) ELSE fsys.nodes[n]]]

-----------------------------------------------------------------------------
(* Folder provisioner, lines 142-189 *)

\* the provisioner without the check of lines 169-174: os.makedirs raises
\* FileExistsError on a path that exists
create_project_folder_unchecked(root, fsys, date, makedirs_ok) ==
    IF falsy(root)
    THEN [result |-> [status |-> "error", folder_path |-> None], fs |-> fsys]
    ELSE IF ~ path_exists(fsys, root)
    THEN [result |-> [status |-> "error", folder_path |-> None], fs |-> fsys]
    ELSE LET folder_name == folder_name_of(date)
             folder_path == path_join(root, folder_name)
         IN IF makedirs_ok /\ ~ path_exists(fsys, folder_path)
            THEN [result |-> [status |-> "created", folder_path |-> folder_path],
                  fs |-> fs_makedirs(fsys, folder_name)]
            ELSE [result |-> [status |-> "error", folder_path |-> None], fs |-> fsys]

\* makedirs_ok: does os.makedirs succeed, or raise OSError
create_project_folder(root, fsys, date, makedirs_ok) ==
    IF falsy(root)
    THEN [result |-> [status |-> "error", folder_path |-> None], fs |-> fsys]
    ELSE IF ~ path_exists(fsys, root)
    THEN [result |-> [status |-> "error", folder_path |-> None], fs |-> fsys]
    ELSE LET folder_name == folder_name_of(date)
             folder_path == path_join(root, folder_name)
         IN IF path_exists(fsys, folder_path)
            THEN [result |-> [status |-> "exists", folder_path |-> folder_path],
                  fs |-> fsys]
            ELSE IF makedirs_ok
            THEN [result |-> [status |-> "created", folder_path |-> folder_path],
                  fs |-> fs_makedirs(fsys, folder_name)]
            ELSE [result |-> [status |-> "error", folder_path |-> None], fs |-> fsys]

-----------------------------------------------------------------------------
(* Document templater, lines 191-259 *)

\* line 235: " ".join(f"#{kw}" for kw in keywords), "" for no keywords
RECURSIVE formatted_keywords_from(_, _)
formatted_keywords_from(keywords, k) ==
    IF k > Len(keywords)
    THEN <<>>
    ELSE (IF k > 1 THEN <<" ">> ELSE <<>>) \o <<"#">> \o keywords[k]
         \o formatted_keywords_from(keywords, k + 1)

\* lines 238-242: the template, as the sequence of its pieces
readme_content_of(title, keywords) ==
    <<"# ">> \o title \o <<"\n\n> **Keywords**: ">>
    \o formatted_keywords_from(keywords, 1) \o <<"\n\n">>

\* how the write of lines 246-247 can end: the content is written; open()
\* raises OSError and no file appears; or the file is created and the write
\* raises OSError, leaving it empty
WriteOutcomes == {"written", "open_fails", "write_fails"}

\* the templater without the check of lines 227-232: open(..., 'w') truncates
\* the README.md that is there
create_readme_file_overwriting(fsys, folder_path, title, keywords, write_outcome) ==
    IF falsy(folder_path)
    THEN [result |-> [status |-> "error", file_path |-> None], fs |-> fsys]
    ELSE IF ~ path_exists(fsys, folder_path)
    THEN [result |-> [status |-> "error", file_path |-> None], fs |-> fsys]
    ELSE IF ~ path_isdir(fsys, folder_path)
    THEN [result |-> [status |-> "error", file_path |-> None], fs |-> fsys]
    ELSE LET readme_path == path_join(folder_path, README) IN
         CASE write_outcome = "written" ->
                  [result |-> [status |-> "created", file_path |-> readme_path],
                   fs |-> fs_write_readme(fsys, folder_path[2],
                                          readme_content_of(title, keywords))]
           [] write_outcome = "open_fails" ->
                  [result |-> [status |-> "error", file_path |-> None], fs |-> fsys]
           [] write_outcome = "write_fails" ->
                  [result |-> [status |-> "error", file_path |-> None],
                   fs |-> fs_write_readme(fsys, folder_path[2], <<>>)]

create_readme_file(fsys, folder_path, title, keywords, write_outcome) ==
    IF falsy(folder_path)
    THEN [result |-> [status |-> "error", file_path |-> None], fs |-> fsys]
    ELSE IF ~ path_exists(fsys, folder_path)
    THEN [result |-> [status |-> "error", file_path |-> None], fs |-> fsys]
    ELSE IF ~ path_isdir(fsys, folder_path)
    THEN [result |-> [status |-> "error", file_path |-> None], fs |-> fsys]
    ELSE LET readme_path == path_join(folder_path, README) IN
         IF path_exists(fsys, readme_path)
         THEN [result |-> [status |-> "exists", file_path |-> readme_path], fs |-> fsys]
         ELSE CASE write_outcome = "written" ->
                     [result |-> [status |-> "created", file_path |-> readme_path],
                      fs |-> fs_write_readme(fsys, folder_path[2],
                                             readme_content_of(title, keywords))]
                [] write_outcome = "open_fails" ->
                     [result |-> [status |-> "error", file_path |-> None], fs |-> fsys]
                [] write_outcome = "write_fails" ->
                     [result |-> [status |-> "error", file_path |-> None],
                      fs |-> fs_write_readme(fsys, folder_path[2], <<>>)]

-----------------------------------------------------------------------------
(* Provisioning orchestrator, lines 261-339 *)

\* the labels with the inner test of the first branch lost
overall_status_of_one_label_for_exists(folder_status, readme_status) ==
    IF folder_status = "exists"
    THEN "all_exist"
    ELSE IF readme_status = "exists"
         THEN "folder_created_readme_exists"
         ELSE "all_created"

\* lines 318-331: the label for a folder status and a README status, neither
\* of them "error"
overall_status_of(folder_status, readme_status) ==
    IF folder_status = "exists"
    THEN IF readme_status = "exists"
         THEN "all_exist"
         ELSE "folder_exists_readme_created"
    ELSE IF readme_status = "exists"
         THEN "folder_created_readme_exists"
         ELSE "all_created"

\* the folder step's error going unnoticed
folder_step_never_failed(folder_result) == FALSE

\* line 287: did the folder step fail
folder_step_failed(folder_result) == folder_result.status = "error"

\* the README step's error going unnoticed
readme_step_never_failed(readme_result) == FALSE

\* line 300: did the README step fail
readme_step_failed(readme_result) == readme_result.status = "error"

\* one entry of the record of what an operation invoked: the function, the
\* status it returned and the path it returned or was given
Invoked(fn, status, path) == [fn |-> fn, status |-> status, path |-> path]

\* open_ok: does subprocess.Popen(["open", folder_path]) start, or raise.
\* calls lists what the operation invoked, in order.
create_project_with_readme(root, fsys, date, title, keywords, makedirs_ok, write_outcome, open_ok) ==
    IF falsy(title)
    THEN [result |-> [status |-> "error", folder_path |-> None, readme_path |-> None],
          fs |-> fsys, calls |-> <<>>]
    ELSE LET folder == create_project_folder(root, fsys, date, makedirs_ok)
             folder_call == Invoked("create_project_folder", folder.result.status,
                                    folder.result.folder_path)
         IN
         IF folder_step_failed(folder.result)
         THEN [result |-> [status |-> "error", folder_path |-> None,
                           readme_path |-> None],
               fs |-> folder.fs,
               calls |-> << folder_call >>]
         ELSE LET folder_path == folder.result.folder_path
                  readme == create_readme_file(folder.fs, folder_path, title,
                                               keywords, write_outcome)
                  readme_call == Invoked("create_readme_file", readme.result.status,
                                         readme.result.file_path)
                  open_status == IF open_ok THEN "opened" ELSE "not_opened"
              IN IF readme_step_failed(readme.result)
                 THEN [result |-> [status |-> "partial", folder_path |-> folder_path,
                                   readme_path |-> None],
                       fs |-> readme.fs,
                       calls |-> << folder_call, readme_call >>]
                 ELSE [result |->
                           [status |-> overall_status_of(folder.result.status,
                                                         readme.result.status),
                            folder_path |-> folder_path,
                            readme_path |-> readme.result.file_path,
                            open_status |-> open_status],
                       fs |-> readme.fs,
                       calls |-> << folder_call, readme_call,
                                    Invoked("open", open_status, folder_path) >>]

\* the tool's keywords argument: a list, or left at its default None
KeywordsGiven(keywords) == [is_none |-> FALSE, list |-> keywords]
KeywordsNone == [is_none |-> TRUE]

\* lines 354-358: the tool
create_project_and_open(root, fsys, date, title, keywords, makedirs_ok, write_outcome, open_ok) ==
    create_project_with_readme(root, fsys, date, title,
                               IF keywords.is_none THEN <<>> ELSE keywords.list,
                               makedirs_ok, write_outcome, open_ok)

-----------------------------------------------------------------------------
(* Reader, lines 372-471 *)

\* read_ok: does reading README.md succeed, or raise
get_project_readme(root, fsys, project_id, read_ok) ==
    IF falsy(project_id)
    THEN [status |-> "error", project_id |-> None, readme_content |-> None]
    ELSE IF falsy(root)
    THEN [status |-> "error", project_id |-> project_id, readme_content |-> None]
    ELSE IF ~ path_exists(fsys, root)
    THEN [status |-> "error", project_id |-> project_id, readme_content |-> None]
    ELSE LET project_folder_path == path_join(root, project_id) IN
         IF ~ path_exists(fsys, project_folder_path)
         THEN [status |-> "not_found", project_id |-> project_id,
               readme_content |-> None]
         ELSE IF ~ path_isdir(fsys, project_folder_path)
         THEN [status |-> "error", project_id |-> project_id, readme_content |-> None]
         ELSE LET readme_path == path_join(project_folder_path, README) IN
              IF ~ path_exists(fsys, readme_path)
              THEN [status |-> "no_readme", project_id |-> project_id,
                    readme_content |-> None]
              ELSE IF read_ok
              THEN [status |-> "success", project_id |-> project_id,
                    readme_content |-> node_of(fsys, project_id).readme]
              ELSE [status |-> "read_error", project_id |-> project_id,
                    readme_content |-> None]

\* lines 470-471: the tool
project_details(root, fsys, project_id, read_ok) ==
    get_project_readme(root, fsys, project_id, read_ok)

-----------------------------------------------------------------------------
(* Inputs *)

\* all sequences over S of length at most n
RECURSIVE SeqsUpTo(_, _)
SeqsUpTo(S, n) ==
    IF n = 0
    THEN {<<>>}
    ELSE LET shorter == SeqsUpTo(S, n - 1)
         IN shorter \cup { Append(q, x) : q \in { r \in shorter : Len(r) = n - 1 }, x \in S }

\* FILTER_STRATEGY in the environment: unset, or one of these values
Unset == [set |-> FALSE]
EnvValue(val) == [set |-> TRUE, val |-> val]
EnvSettings ==
    { Unset,
      EnvValue(<<"A", "N", "D">>), EnvValue(<<"a", "n", "d">>),
      EnvValue(<<"O", "R">>),
      EnvValue(<<"A", "L", "L">>), EnvValue(<<"A", "N", "Y">>) }

\* project records of the registry: a title of two words and a keyword; a
\* title of whitespace alone and no keywords field; no title field and
\* keywords that hold a capital and a space
RecordPool ==
    { JObject([id |-> JString(<<"p", "1">>),
               title |-> JString(<<"G", "o", " ", "L", "a", "d">>),
               keywords |-> JArray(<< JString(<<"n", "y">>) >>)]),
      JObject([id |-> JString(<<"p", "2">>),
               title |-> JString(<<" ">>)]),
      JObject([id |-> JString(<<"p", "3">>),
               keywords |-> JArray(<< JString(<<"D", "o", "g">>),
                                      JString(<<"o", " ", "l">>) >>)]) }

\* a registry document holding these records
SourceOf(records) ==
    [kind |-> "json", data |-> JObject([projects |-> JArray(records)])]
MissingSource == [kind |-> "missing"]
InvalidSource == [kind |-> "invalid"]

\* registry sources that hold project records, or nothing readable
RegistrySources ==
    { SourceOf(records) : records \in SeqsUpTo(RecordPool, MaxRecords) }
    \cup {MissingSource, InvalidSource}

\* JSON documents that are not a registry: not an object, an object without
\* a projects list, a list holding something that is not a record or a
\* record whose title is null
MalformedSources ==
    { [kind |-> "json", data |-> JArray(<<>>)],
      [kind |-> "json", data |-> JObject([projects |-> JNull])],
      [kind |-> "json", data |-> JObject([projects |-> JNumber])],
      SourceOf(<< JNumber >>),
      SourceOf(<< JObject([id |-> JString(<<"p", "5">>), title |-> JNull]) >>) }

\* the words a caller filters by: capitals that are part of a word, a phrase
\* with a space, the empty string
FilterWords ==
    { <<"L", "A">>, <<"o", " ", "l">>, <<>> }

FilterKeywordLists == SeqsUpTo(FilterWords, MaxKeywords)

\* the keyword lists the tool is called with where the registry may be malformed
ToolKeywordLists == { <<>>, << <<"L", "A">> >> }

\* titles and keyword lists of provisioning requests
Titles == { <<>>, <<"M", "y">>, <<"X">> }
KeywordLists == { << <<"m", "l">>, <<"a">> >> }

\* the keywords argument of the provisioning tool: omitted, empty, or a list
ToolKeywordArgs ==
    {KeywordsNone, KeywordsGiven(<<>>)} \cup { KeywordsGiven(k) : k \in KeywordLists }

\* a README.md that was in a folder before the server ran
ForeignReadme == <<"notes">>

\* the file systems the server can start on: no root directory; or a root in
\* which the first day's name is free, taken by a file, or a directory with
\* or without a README.md, and the later days' names are free
InitialNodes == { AbsentNode, FileNode, DirNode(None), DirNode(ForeignReadme) }
InitialFileSystems ==
    { [root_exists |-> FALSE, nodes |-> [n \in FolderNames |-> AbsentNode]] }
    \cup { [root_exists |-> TRUE,
            nodes |-> [n \in FolderNames |->
                          IF n = folder_name_of(date_of(0)) THEN node ELSE AbsentNode]] :
               node \in InitialNodes }

\* PROJECT_FOLDERS_ROOT: unset, empty, or naming the root
RootSettings == { None, <<>>, ROOT }

\* folder paths handed to the templater, project ids handed to the reader
FolderPathArgs == { None } \cup { path_join(ROOT, n) : n \in FolderNames }
ProjectIds == { <<>>, <<"n", "o", "p", "e">> } \cup FolderNames

-----------------------------------------------------------------------------
(* The server: start-up and one action per operation *)

NoCall == /\ op = ""
          /\ args = <<>>
          /\ ret = <<>>
          /\ calls = <<>>

\* the server handles one call at a time: no call overlaps another
NoOverlap == /\ procs = <<>>
             /\ attempts = <<>>

\* start-up of a server used for provisioning: no registry, default strategy
Init ==
    /\ env_FILTER_STRATEGY = Unset
    /\ filter_strategy = read_filter_strategy(env_FILTER_STRATEGY)
    /\ projects_json = MissingSource
    /\ project_folders_root \in RootSettings
    /\ fs \in InitialFileSystems
    /\ today = 0
    /\ NoCall
    /\ NoOverlap

\* start-up of a server used for searching: no provisioning root
InitFilter ==
    /\ env_FILTER_STRATEGY \in EnvSettings
    /\ filter_strategy = read_filter_strategy(env_FILTER_STRATEGY)
    /\ projects_json \in RegistrySources
    /\ project_folders_root = None
    /\ fs = [root_exists |-> FALSE, nodes |-> [n \in FolderNames |-> AbsentNode]]
    /\ today = 0
    /\ NoCall
    /\ NoOverlap

\* start-up of a server whose registry may be malformed
InitPublic ==
    /\ env_FILTER_STRATEGY = Unset
    /\ filter_strategy = read_filter_strategy(env_FILTER_STRATEGY)
    /\ projects_json \in MalformedSources \cup {MissingSource, InvalidSource,
                                                SourceOf(<<>>)}
    /\ project_folders_root \in RootSettings
    /\ fs \in InitialFileSystems
    /\ today = 0
    /\ NoCall
    /\ NoOverlap

Globals == << env_FILTER_STRATEGY, filter_strategy, projects_json, project_folders_root >>

CallLoadAndFilterProjects ==
    \E filter_keywords \in FilterKeywordLists :
        /\ op' = "load_and_filter_projects"
        /\ args' = [filter_keywords |-> filter_keywords]
        /\ ret' = load_and_filter_projects(projects_json, filter_strategy, filter_keywords)
        /\ calls' = <<>>
        /\ UNCHANGED << Globals, fs, today, procs, attempts >>

CallFindProjects ==
    \E keywords \in ToolKeywordLists :
        /\ op' = "find_projects"
        /\ args' = [keywords |-> keywords]
        /\ ret' = find_projects(projects_json, filter_strategy, keywords)
        /\ calls' = <<>>
        /\ UNCHANGED << Globals, fs, today, procs, attempts >>

CallCreateProjectFolder ==
    \E makedirs_ok \in BOOLEAN :
        LET done == create_project_folder(project_folders_root, fs, date_of(today),
                                          makedirs_ok)
        IN /\ op' = "create_project_folder"
           /\ args' = [now |-> date_of(today)]
           /\ ret' = done.result
           /\ fs' = done.fs
           /\ calls' = <<>>
           /\ UNCHANGED << Globals, today, procs, attempts >>

\* a caller that provisions a folder twice in a row; midnight may pass between
\* the two calls.  ret keeps both results and the file system between them.
CallCreateProjectFolderTwice ==
    \E makedirs_ok_1 \in BOOLEAN, makedirs_ok_2 \in BOOLEAN, midnight \in BOOLEAN :
        LET day_2 == IF midnight THEN today + 1 ELSE today
            first == create_project_folder(project_folders_root, fs, date_of(today),
                                           makedirs_ok_1)
            second == create_project_folder(project_folders_root, first.fs,
                                            date_of(day_2), makedirs_ok_2)
        IN /\ day_2 <= MaxDay
           /\ op' = "create_project_folder twice"
           /\ args' = [now_1 |-> date_of(today), now_2 |-> date_of(day_2)]
           /\ ret' = [first |-> first.result, second |-> second.result,
                      fs_between |-> first.fs]
           /\ fs' = second.fs
           /\ today' = day_2
           /\ calls' = <<>>
           /\ UNCHANGED << Globals, procs, attempts >>

CallCreateReadmeFile ==
    \E folder_path \in FolderPathArgs, title \in Titles, keywords \in KeywordLists,
       write_outcome \in WriteOutcomes :
        LET done == create_readme_file(fs, folder_path, title, keywords, write_outcome)
        IN /\ op' = "create_readme_file"
           /\ args' = [folder_path |-> folder_path, title |-> title]
           /\ ret' = done.result
           /\ fs' = done.fs
           /\ calls' = <<>>
           /\ UNCHANGED << Globals, today, procs, attempts >>

CallCreateProjectWithReadme ==
    \E title \in Titles, keywords \in KeywordLists, makedirs_ok \in BOOLEAN,
       write_outcome \in WriteOutcomes, open_ok \in BOOLEAN :
        LET done == create_project_with_readme(project_folders_root, fs, date_of(today),
                                               title, keywords, makedirs_ok,
                                               write_outcome, open_ok)
        IN /\ op' = "create_project_with_readme"
           /\ args' = [title |-> title]
           /\ ret' = done.result
           /\ fs' = done.fs
           /\ calls' = done.calls
           /\ UNCHANGED << Globals, today, procs, attempts >>

CallCreateProjectAndOpen ==
    \E title \in Titles,
       keywords \in ToolKeywordArgs,
       makedirs_ok \in BOOLEAN,
       write_outcome \in WriteOutcomes, open_ok \in BOOLEAN :
        LET done == create_project_and_open(project_folders_root, fs, date_of(today),
                                            title, keywords, makedirs_ok,
                                            write_outcome, open_ok)
        IN /\ op' = "create_project_and_open"
           /\ args' = [title |-> title]
           /\ ret' = [raised |-> FALSE, result |-> done.result]
           /\ fs' = done.fs
           /\ calls' = done.calls
           /\ UNCHANGED << Globals, today, procs, attempts >>

CallProjectDetails ==
    \E project_id \in ProjectIds, read_ok \in BOOLEAN :
        /\ op' = "project_details"
        /\ args' = [project_id |-> project_id]
        /\ ret' = [raised |-> FALSE,
                   result |-> project_details(project_folders_root, fs, project_id, read_ok)]
        /\ calls' = <<>>
        /\ UNCHANGED << Globals, fs, today, procs, attempts >>

\* midnight passes
NextDay ==
    /\ today < MaxDay
    /\ today' = today + 1
    /\ UNCHANGED << Globals, fs, op, args, ret, calls, procs, attempts >>

Next ==
    \/ CallCreateProjectFolder
    \/ CallCreateProjectFolderTwice
    \/ CallCreateReadmeFile
    \/ CallCreateProjectWithReadme
    \/ NextDay

NextFilter == CallLoadAndFilterProjects

NextPublic ==
    \/ CallFindProjects
    \/ CallCreateProjectAndOpen
    \/ CallProjectDetails
    \/ NextDay

Spec == Init /\ [][Next]_vars

SpecFilter == InitFilter /\ [][NextFilter]_vars

SpecPublic == InitPublic /\ [][NextPublic]_vars

-----------------------------------------------------------------------------
(* Two calls in progress at the same time.  Each call runs the statements of
   its function in order; what is atomic is one call of the operating system
   (os.path.exists, os.makedirs, open, the write that reaches the file when
   the with-block closes it), and the two calls' steps interleave freely. *)

Procs == {1, 2}

\* a call that has not begun: its function, its arguments, its position
FolderCall ==
    [fn |-> "create_project_folder", pc |-> "check_root", folder_path |-> None,
     title |-> None, keywords |-> <<>>, result |-> None]
ReadmeCall(folder_path, title, keywords) ==
    [fn |-> "create_readme_file", pc |-> "check_folder", folder_path |-> folder_path,
     title |-> title, keywords |-> keywords, result |-> None]
PendingCalls ==
    {FolderCall} \cup { ReadmeCall(folder_path, title, keywords) :
                           folder_path \in FolderPathArgs, title \in Titles,
                           keywords \in KeywordLists }

\* the call's record after it returned result
returned(call, result) == [call EXCEPT !.pc = "done", !.result = result]

\* lines 149-161 of create_project_folder: the root is set and exists
CheckRoot(p) ==
    /\ procs[p].fn = "create_project_folder"
    /\ procs[p].pc = "check_root"
    /\ procs' = [procs EXCEPT ![p] =
                    IF falsy(project_folders_root) \/ ~ path_exists(fs, project_folders_root)
                    THEN returned(@, [status |-> "error", folder_path |-> None])
                    ELSE [@ EXCEPT !.pc = "check_folder"]]
    /\ UNCHANGED << Globals, fs, today, op, args, ret, calls, attempts >>

\* lines 164-174: the name from the clock, then os.path.exists(folder_path)
CheckFolder(p) ==
    /\ procs[p].fn = "create_project_folder"
    /\ procs[p].pc = "check_folder"
    /\ LET folder_name == folder_name_of(date_of(today))
           folder_path == path_join(project_folders_root, folder_name)
       IN procs' = [procs EXCEPT ![p] =
                       IF path_exists(fs, folder_path)
                       THEN returned(@, [status |-> "exists", folder_path |-> folder_path])
                       ELSE [@ EXCEPT !.pc = "makedirs", !.folder_path = folder_path]]
    /\ UNCHANGED << Globals, fs, today, op, args, ret, calls, attempts >>

\* lines 176-189: os.makedirs(folder_path), called without exist_ok, raises
\* FileExistsError when the path exists by now; that and any other OSError
\* are caught at line 184
Makedirs(p) ==
    /\ procs[p].fn = "create_project_folder"
    /\ procs[p].pc = "makedirs"
    /\ \E makedirs_ok \in BOOLEAN :
          LET folder_path == procs[p].folder_path
              raises == path_exists(fs, folder_path) \/ ~ makedirs_ok
          IN /\ fs' = IF raises THEN fs ELSE fs_makedirs(fs, folder_path[2])
             /\ procs' = [procs EXCEPT ![p] =
                   IF raises
                   THEN returned(@, [status |-> "error", folder_path |-> None])
                   ELSE returned(@, [status |-> "created", folder_path |-> folder_path])]
    /\ attempts' = Append(attempts, [proc |-> p, call |-> "makedirs"])
    /\ UNCHANGED << Globals, today, op, args, ret, calls >>

\* lines 203-222 of create_readme_file: the folder path is given, exists and
\* is a directory
ReadmeCheckFolder(p) ==
    /\ procs[p].fn = "create_readme_file"
    /\ procs[p].pc = "check_folder"
    /\ LET folder_path == procs[p].folder_path
       IN procs' = [procs EXCEPT ![p] =
                       IF \/ falsy(folder_path)
                          \/ ~ path_exists(fs, folder_path)
                          \/ ~ path_isdir(fs, folder_path)
                       THEN returned(@, [status |-> "error", file_path |-> None])
                       ELSE [@ EXCEPT !.pc = "check_readme"]]
    /\ UNCHANGED << Globals, fs, today, op, args, ret, calls, attempts >>

\* lines 224-232: os.path.exists(readme_path)
ReadmeCheckExists(p) ==
    /\ procs[p].fn = "create_readme_file"
    /\ procs[p].pc = "check_readme"
    /\ LET readme_path == path_join(procs[p].folder_path, README)
       IN procs' = [procs EXCEPT ![p] =
                       IF path_exists(fs, readme_path)
                       THEN returned(@, [status |-> "exists", file_path |-> readme_path])
                       ELSE [@ EXCEPT !.pc = "open"]]
    /\ UNCHANGED << Globals, fs, today, op, args, ret, calls, attempts >>

\* line 246: open(readme_path, 'w') creates the file or empties the one that
\* is there, and leaves the position at its start; an OSError is caught at 254
ReadmeOpen(p) ==
    /\ procs[p].fn = "create_readme_file"
    /\ procs[p].pc = "open"
    /\ \E open_ok \in BOOLEAN :
          /\ fs' = IF open_ok
                   THEN fs_write_readme(fs, procs[p].folder_path[2], <<>>)
                   ELSE fs
          /\ procs' = [procs EXCEPT ![p] =
                          IF open_ok
                          THEN [@ EXCEPT !.pc = "write"]
                          ELSE returned(@, [status |-> "error", file_path |-> None])]
    /\ UNCHANGED << Globals, today, op, args, ret, calls, attempts >>

\* what a file holds after new was written from its start over old: new, then
\* whatever of old lies beyond it (contents are counted in their pieces)
written_from_start(old, new) == new \o SubSeq(old, Len(new) + 1, Len(old))

\* line 247 and the end of the with-block: the content reaches the file from
\* the position the open left, its start; an OSError is caught at 254
ReadmeWrite(p) ==
    /\ procs[p].fn = "create_readme_file"
    /\ procs[p].pc = "write"
    /\ \E write_ok \in BOOLEAN :
          LET folder_path == procs[p].folder_path
              readme_path == path_join(folder_path, README)
              readme_content == readme_content_of(procs[p].title, procs[p].keywords)
              held == node_of(fs, folder_path[2]).readme
          IN /\ fs' = IF write_ok
                      THEN fs_write_readme(fs, folder_path[2],
                                           written_from_start(held, readme_content))
                      ELSE fs
             /\ procs' = [procs EXCEPT ![p] =
                   IF write_ok
                   THEN returned(@, [status |-> "created", file_path |-> readme_path])
                   ELSE returned(@, [status |-> "error", file_path |-> None])]
             /\ attempts' = IF write_ok
                            THEN Append(attempts, [proc |-> p, call |-> "write"])
                            ELSE attempts
    /\ UNCHANGED << Globals, today, op, args, ret, calls >>

\* start-up of a server that is given two calls at once
InitRace ==
    /\ env_FILTER_STRATEGY = Unset
    /\ filter_strategy = read_filter_strategy(env_FILTER_STRATEGY)
    /\ projects_json = MissingSource
    /\ project_folders_root \in RootSettings
    /\ fs \in InitialFileSystems
    /\ today = 0
    /\ NoCall
    /\ procs \in [Procs -> PendingCalls]
    /\ attempts = <<>>

NextRace ==
    \/ \E p \in Procs : CheckRoot(p)
    \/ \E p \in Procs : CheckFolder(p)
    \/ \E p \in Procs : Makedirs(p)
    \/ \E p \in Procs : ReadmeCheckFolder(p)
    \/ \E p \in Procs : ReadmeCheckExists(p)
    \/ \E p \in Procs : ReadmeOpen(p)
    \/ \E p \in Procs : ReadmeWrite(p)
    \/ NextDay

SpecRace == InitRace /\ [][NextRace]_vars

-----------------------------------------------------------------------------
(* Properties of the keyword filter, checked under SpecFilter *)

\* the project records the registry source holds; none when there is no
\* readable source
Registry ==
    IF projects_json.kind = "json"
    THEN projects_json.data.fields.projects.items
    ELSE <<>>

\* two characters that are the same letter, whatever their case
SameLetter(c, d) == c = d \/ <<c, d>> \in CasePairs \/ <<d, c>> \in CasePairs

\* keyword is a substring of term, comparing case-insensitively
OccursIn(keyword, term) ==
    \E offset \in 0..(Len(term) - Len(keyword)) :
        \A i \in 1..Len(keyword) : SameLetter(keyword[i], term[offset + i])

\* the whitespace-separated words of a text
WordsOf(text) ==
    { SubSeq(text, i, j) : <<i, j>> \in
        { w \in (1..Len(text)) \X (1..Len(text)) :
            /\ w[1] <= w[2]
            /\ \A k \in w[1]..w[2] : text[k] \notin Whitespace
            /\ w[1] = 1 \/ text[w[1] - 1] \in Whitespace
            /\ w[2] = Len(text) \/ text[w[2] + 1] \in Whitespace } }

\* a record's term set: its keywords plus the words of its title
TermSet(record) ==
    (IF "keywords" \in DOMAIN record.fields
     THEN { record.fields.keywords.items[n].s :
                n \in 1..Len(record.fields.keywords.items) }
     ELSE {})
    \cup
    (IF "title" \in DOMAIN record.fields THEN WordsOf(record.fields.title.s) ELSE {})

Matches(keyword, record) == \E term \in TermSet(record) : OccursIn(keyword, term)

AllMustMatch(record, keywords) ==
    \A k \in 1..Len(keywords) : Matches(keywords[k], record)

AnyMayMatch(record, keywords) ==
    \E k \in 1..Len(keywords) : Matches(keywords[k], record)

\* a is b with some elements left out, the others in b's order
IsSubsequence(a, b) ==
    \E f \in [1..Len(a) -> 1..Len(b)] :
        /\ \A i \in 1..Len(a) : \A j \in 1..Len(a) : i < j => f[i] < f[j]
        /\ \A i \in 1..Len(a) : a[i] = b[f[i]]

FilterCalled == op = "load_and_filter_projects"

\* C1: for a non-empty filter keyword list, load_and_filter_projects keeps a
\* record of the registry iff, comparing case-insensitively, every filter
\* keyword (strategy AND, all must match) or at least one filter keyword
\* (any other strategy, any may match) is a substring of some term of the
\* record's term set; it returns nothing that is not in the registry, and a
\* record with an empty term set is never kept.
C1_KeptIffKeywordsMatch ==
    (FilterCalled /\ args.filter_keywords # <<>>) =>
        /\ ret.t = "array"
        /\ \A j \in 1..Len(ret.items) :
               \E i \in 1..Len(Registry) : Registry[i] = ret.items[j]
        /\ \A i \in 1..Len(Registry) :
               (\E j \in 1..Len(ret.items) : ret.items[j] = Registry[i])
               <=> IF filter_strategy = AND
                   THEN AllMustMatch(Registry[i], args.filter_keywords)
                   ELSE AnyMayMatch(Registry[i], args.filter_keywords)
        /\ \A i \in 1..Len(Registry) :
               TermSet(Registry[i]) = {} =>
                   ~ \E j \in 1..Len(ret.items) : ret.items[j] = Registry[i]

\* C1 witness: under AND, two filter keywords, one of them capitals inside a
\* word and one the empty string, kept one of two records with terms and
\* dropped a record that has no term
C1_Witness ==
    /\ FilterCalled
    /\ filter_strategy = AND
    /\ args.filter_keywords = << <<"L", "A">>, <<>> >>
    /\ Len(Registry) = 2
    /\ TermSet(Registry[1]) = {}
    /\ TermSet(Registry[2]) # {}
    /\ ret.items = << Registry[2] >>

\* the setting is unset, or spells AND in any letter case
SettingIsAND ==
    \/ ~ env_FILTER_STRATEGY.set
    \/ /\ Len(env_FILTER_STRATEGY.val) = Len(AND)
       /\ \A i \in 1..Len(AND) : SameLetter(env_FILTER_STRATEGY.val[i], AND[i])

\* the registry's records that a rule keeps, in the registry's order
KeptByAll(keywords) == SelectSeq(Registry, LAMBDA r : AllMustMatch(r, keywords))
KeptByAny(keywords) == SelectSeq(Registry, LAMBDA r : AnyMayMatch(r, keywords))

\* C2 as stated: with the setting unset or set to ALL the filter applies the
\* all-must-match rule, with the setting ANY the any-may-match rule.
C2_AsStated ==
    (FilterCalled /\ args.filter_keywords # <<>>) =>
        /\ (~ env_FILTER_STRATEGY.set \/ env_FILTER_STRATEGY.val = <<"A", "L", "L">>)
               => ret = JArray(KeptByAll(args.filter_keywords))
        /\ (env_FILTER_STRATEGY.set /\ env_FILTER_STRATEGY.val = <<"A", "N", "Y">>)
               => ret = JArray(KeptByAny(args.filter_keywords))

\* C2, amended: the setting's values are AND and OR with default AND.  In
\* every call, whatever calls came before, the filter applies the
\* all-must-match rule when the setting read at startup was unset or spelled
\* AND in any letter case, and the any-may-match rule for every other value
\* (OR, and also ALL and ANY); the strategy in force is the upper-cased
\* setting.
C2_PolicyFromSetting ==
    /\ filter_strategy = AND <=> SettingIsAND
    /\ (FilterCalled /\ args.filter_keywords # <<>>) =>
           ret = JArray(IF SettingIsAND
                        THEN KeptByAll(args.filter_keywords)
                        ELSE KeptByAny(args.filter_keywords))

\* C2 witness: with the setting ALL a call kept a record that only one of
\* its two keywords matches
C2_Witness ==
    /\ FilterCalled
    /\ env_FILTER_STRATEGY.set
    /\ env_FILTER_STRATEGY.val = <<"A", "L", "L">>
    /\ Len(args.filter_keywords) = 2
    /\ KeptByAll(args.filter_keywords) = <<>>
    /\ ret.items # <<>>

\* C3: load_and_filter_projects returns an order-preserving subsequence of
\* the registry, and for an empty filter keyword list the whole registry in
\* its order, under either strategy.
C3_OrderPreserved ==
    FilterCalled =>
        /\ ret.t = "array"
        /\ IsSubsequence(ret.items, Registry)
        /\ args.filter_keywords = <<>> => ret.items = Registry

\* C3 witness: a registry of two different records came back whole for the
\* empty keyword list under a strategy other than AND
C3_Witness ==
    /\ FilterCalled
    /\ args.filter_keywords = <<>>
    /\ filter_strategy # AND
    /\ Len(Registry) = 2
    /\ Registry[1] # Registry[2]
    /\ ret.items = Registry

-----------------------------------------------------------------------------
(* Properties of provisioning, checked under Spec *)

TodaysFolder == folder_name_of(date_of(today))

\* C4: when the first of two calls of create_project_folder made in a row on
\* the same calendar day returns created with a path, the second returns
\* exists with the same path and leaves the file system as the first left it.
C4_SecondCallSameDayExists ==
    (/\ op = "create_project_folder twice"
     /\ ret.first.status = "created"
     /\ args.now_1 = args.now_2) =>
        /\ ret.second.status = "exists"
        /\ ret.second.folder_path = ret.first.folder_path
        /\ fs = ret.fs_between

\* C4 witness: two calls on one day, the first of which created the folder
C4_Witness ==
    /\ op = "create_project_folder twice"
    /\ args.now_1 = args.now_2
    /\ ret.first.status = "created"
    /\ ret.first.folder_path = path_join(ROOT, TodaysFolder)
    /\ node_of(fs, TodaysFolder) = DirNode(None)

\* C5: once a folder holds a README.md no step changes the file's content,
\* and every call of create_readme_file on that folder, whatever its title
\* and keywords, returns exists with the file's path.
C5_ReadmeNeverOverwritten ==
    [][ \A n \in FolderNames :
            node_of(fs, n).readme # None =>
                /\ node_of(fs', n).readme = node_of(fs, n).readme
                /\ (/\ op' = "create_readme_file"
                    /\ args'.folder_path = path_join(ROOT, n)
                    /\ CallCreateReadmeFile)
                       => /\ ret'.status = "exists"
                          /\ ret'.file_path = path_join(path_join(ROOT, n), README) ]_vars

\* C5 witness: a call with the title X returned exists on a folder whose
\* README.md is what the template gives for the title My
C5_Witness ==
    /\ op = "create_readme_file"
    /\ args.folder_path # None
    /\ args.title = <<"X">>
    /\ ret.status = "exists"
    /\ \E keywords \in KeywordLists :
           node_of(fs, args.folder_path[2]).readme
               = readme_content_of(<<"M", "y">>, keywords)

OrchestratorCalled == op = "create_project_with_readme"

\* the folder provisioner was invoked and did not return error
FolderStepSucceeded ==
    /\ OrchestratorCalled
    /\ calls # <<>>
    /\ calls[1].fn = "create_project_folder"
    /\ calls[1].status # "error"

\* C6: a call of create_project_with_readme with an empty title returns
\* status error without a folder path or a README path, invokes neither the
\* folder provisioner, the templater nor the reveal action and leaves the
\* file system as it was.
C6_EmptyTitleRejected ==
    [][ (op' = "create_project_with_readme" /\ args'.title = <<>>) =>
            /\ ret'.status = "error"
            /\ ret'.folder_path = None
            /\ ret'.readme_path = None
            /\ calls' = <<>>
            /\ fs' = fs ]_vars

\* C6 witness: the empty title was rejected where a request with a title
\* would have created today's folder
C6_Witness ==
    /\ OrchestratorCalled
    /\ args.title = <<>>
    /\ ret.status = "error"
    /\ project_folders_root = ROOT
    /\ fs.root_exists
    /\ node_of(fs, TodaysFolder) = AbsentNode

\* C7: in create_project_with_readme the folder provisioner returns error
\* when the root is unset or missing, and whenever it returns error, for
\* these reasons or because the creation failed, the call ends with status
\* error, no folder path and no README path, having invoked neither the
\* templater nor the reveal action.
C7_FolderErrorShortCircuits ==
    /\ (/\ OrchestratorCalled
        /\ args.title # <<>>
        /\ (project_folders_root \in {None, <<>>} \/ ~ fs.root_exists))
           => (calls # <<>> /\ calls[1].status = "error")
    /\ (OrchestratorCalled /\ calls # <<>> /\ calls[1].status = "error")
           => /\ calls = << Invoked("create_project_folder", "error", None) >>
              /\ ret.status = "error"
              /\ ret.folder_path = None
              /\ ret.readme_path = None

\* C7 witness: the creation of today's folder failed under a root that is
\* configured and exists
C7_Witness ==
    /\ OrchestratorCalled
    /\ calls # <<>>
    /\ calls[1].status = "error"
    /\ project_folders_root = ROOT
    /\ fs.root_exists
    /\ node_of(fs, TodaysFolder) = AbsentNode

\* C8 as stated: whenever the folder provisioner did not return error the
\* reveal action is attempted on the folder path before the call returns.
C8_AsStated ==
    FolderStepSucceeded =>
        \E i \in 1..Len(calls) : calls[i].fn = "open" /\ calls[i].path = calls[1].path

\* C8, amended: whenever the folder provisioner did not return error the
\* templater is invoked next; when it returns created or exists the reveal
\* action is attempted on the folder path, last and once; when it returns
\* error the call returns partial without attempting the reveal action.
C8_RevealUnlessReadmeFailed ==
    FolderStepSucceeded =>
        /\ Len(calls) >= 2
        /\ calls[2].fn = "create_readme_file"
        /\ IF calls[2].status = "error"
           THEN Len(calls) = 2 /\ ret.status = "partial"
           ELSE /\ Len(calls) = 3
                /\ calls[2].status \in {"created", "exists"}
                /\ calls[3].fn = "open"
                /\ calls[3].path = calls[1].path

\* C8 witness: today's folder held a README.md already and the reveal
\* action was attempted on the folder and failed
C8_Witness ==
    /\ FolderStepSucceeded
    /\ Len(calls) = 3
    /\ calls[2].status = "exists"
    /\ calls[3] = Invoked("open", "not_opened", path_join(ROOT, TodaysFolder))

\* the four labels, by folder status and README status
StatusLabel(folder_status, readme_status) ==
    CASE folder_status = "created" /\ readme_status = "created" -> "all_created"
      [] folder_status = "exists" /\ readme_status = "created" ->
             "folder_exists_readme_created"
      [] folder_status = "created" /\ readme_status = "exists" ->
             "folder_created_readme_exists"
      [] folder_status = "exists" /\ readme_status = "exists" -> "all_exist"

-----------------------------------------------------------------------------
(* Properties of the tools, checked under SpecPublic *)

\* C10: no tool raises to its caller, and with a registry source that is
\* missing or malformed load_and_filter_projects returns an empty list.
C10_NoToolRaises ==
    /\ op \in {"find_projects", "create_project_and_open", "project_details"}
           => ~ ret.raised
    /\ (op = "find_projects" /\ projects_json # SourceOf(<<>>))
           => load_and_filter_projects(projects_json, filter_strategy, args.keywords)
                  = JArray(<<>>)

-----------------------------------------------------------------------------
(* Properties of two calls in progress at once, checked under SpecRace *)

\* call p finished with the given status
Returned(p, status) == procs[p].pc = "done" /\ procs[p].result.status = status

\* the attempts show first's before second's, both of the given kind
InOrder(first, second, call) ==
    \E i, j \in DOMAIN attempts :
        /\ i < j
        /\ attempts[i] = [proc |-> first, call |-> call]
        /\ attempts[j] = [proc |-> second, call |-> call]

\* two create_project_folder calls of one day both found the folder missing
\* and both called os.makedirs, first's call before second's and making it
BothTriedToCreate(first, second) ==
    /\ procs[first].fn = "create_project_folder"
    /\ procs[second].fn = "create_project_folder"
    /\ InOrder(first, second, "makedirs")
    /\ procs[first].folder_path = procs[second].folder_path
    /\ Returned(first, "created")

\* C11: when two create_project_folder calls of one calendar day both saw the
\* dated folder missing and both tried to create it, the call whose attempt
\* came second returns "exists" with the folder's path, and never "error"
C11_SecondCreationIsBenign ==
    \A first, second \in Procs :
        BothTriedToCreate(first, second) =>
            /\ procs[second].pc = "done"
            /\ procs[second].result.status = "exists"
            /\ procs[second].result.folder_path = procs[second].folder_path

\* two create_readme_file calls on one folder, with different titles or
\* keywords, both wrote README.md, first's write before second's, and both
\* have returned
BothWrote(first, second) ==
    /\ procs[first].fn = "create_readme_file"
    /\ procs[second].fn = "create_readme_file"
    /\ procs[first].folder_path = procs[second].folder_path
    /\ \/ procs[first].title # procs[second].title
       \/ procs[first].keywords # procs[second].keywords
    /\ InOrder(first, second, "write")
    /\ procs[first].pc = "done"
    /\ procs[second].pc = "done"

\* C12: however two create_readme_file calls on one folder with different
\* titles or keywords interleave, README.md ends with the content of the call
\* that wrote first; the later call does not replace it
C12_FirstWriterWins ==
    \A first, second \in Procs :
        BothWrote(first, second) =>
            node_of(fs, procs[first].folder_path[2]).readme
                = readme_content_of(procs[first].title, procs[first].keywords)

====
